---- MODULE Spec2Model ----
(***************************************************************************)
(* Text-to-image search service: image_process.py (ImageMetadataProcessor, *)
(* ImageRetriever) and main.py (the process_images and query_images        *)
(* handlers).                                                              *)
(*                                                                         *)
(* A Python str is a sequence of one-character strings, so that lower(),   *)
(* split(), count() and the `in` substring test are computed character by  *)
(* character, as the interpreter computes them.                            *)
(***************************************************************************)
EXTENDS Integers, Sequences, FiniteSets, TLC

VARIABLES
    public,          \* the public folder: file name -> the image stored under it
    metadata_store,  \* processor.metadata_store (main.py:34, image_process.py:24)
    retriever,       \* the global retriever (main.py:35): <<>> is None, <<r>> an instance
    request,         \* the request being answered last
    response         \* the answer to it

vars == <<public, metadata_store, retriever, request, response>>

(***************************************************************************)
(* Python str operations                                                   *)
(***************************************************************************)
Min(S) == CHOOSE x \in S : \A y \in S : x <= y

ToSet(seq) == {seq[i] : i \in 1..Len(seq)}

Upper == <<"A","B","C","D","E","F","G","H","I","J","K","L","M","N","O","P","Q","R","S","T","U","V","W","X","Y","Z">>

Lowercase == <<"a","b","c","d","e","f","g","h","i","j","k","l","m","n","o","p","q","r","s","t","u","v","w","x","y","z">>

Digits == <<"0","1","2","3","4","5","6","7","8","9">>

LowerChar(c) ==
    IF \E i \in 1..Len(Upper) : Upper[i] = c
    THEN Lowercase[CHOOSE i \in 1..Len(Upper) : Upper[i] = c]
    ELSE c

\* str.lower()
lower(s) == [i \in 1..Len(s) |-> LowerChar(s[i])]

\* s[i:].startswith(sub), i counted from 1 and sub fitting in
MatchAt(s, sub, i) == \A k \in 1..Len(sub) : s[i + k - 1] = sub[k]

\* the places where sub occurs in s
Occurrences(s, sub) ==
    {i \in 1..(Len(s) - Len(sub) + 1) : s[i] = sub[1] /\ MatchAt(s, sub, i)}

\* sub in s
In(sub, s) == sub = <<>> \/ \E i \in 1..(Len(s) - Len(sub) + 1) : s[i] = sub[1] /\ MatchAt(s, sub, i)

\* s.count(sub): the occurrences that do not overlap, taken from the left
RECURSIVE CountFrom(_, _, _)
CountFrom(hits, width, i) ==
    LET left == {j \in hits : j >= i}
    IN  IF left = {} THEN 0 ELSE 1 + CountFrom(left, width, Min(left) + width)

count(s, sub) ==
    IF sub = <<>> THEN Len(s) + 1 ELSE CountFrom(Occurrences(s, sub), Len(sub), 1)

IsSpace(c) == c \in {" ", "\t", "\n", "\r"}

\* s.split(): the maximal runs of non-whitespace characters
RECURSIVE SplitFrom(_, _, _, _)
SplitFrom(s, i, words, cur) ==
    IF i > Len(s)
    THEN IF cur = <<>> THEN words ELSE Append(words, cur)
    ELSE IF IsSpace(s[i])
         THEN SplitFrom(s, i + 1, IF cur = <<>> THEN words ELSE Append(words, cur), <<>>)
         ELSE SplitFrom(s, i + 1, words, Append(cur, s[i]))

split(s) == SplitFrom(s, 1, <<>>, <<>>)

\* ' '.join(parts)
RECURSIVE join(_)
join(parts) ==
    IF parts = <<>> THEN <<>>
    ELSE IF Len(parts) = 1 THEN parts[1]
    ELSE parts[1] \o <<" ">> \o join(Tail(parts))

\* the decimal digits of n >= 0, as an f-string formats an int
RECURSIVE str(_)
str(n) ==
    IF n < 10 THEN <<Digits[n + 1]>>
    ELSE str(n \div 10) \o <<Digits[(n % 10) + 1]>>

(***************************************************************************)
(* ImageRetriever: the document builder                                    *)
(***************************************************************************)
\* number_of_people as json.loads gives it for a JSON value that is no number
\* (null): every comparison with == is False and > raises TypeError.
JsonNull == -1

\* PeopleTerms with the branch for nobody left out
PeopleTerms_NoZero(people_count) ==
    IF people_count = 1 THEN <<<<"s","i","n","g","l","e"," ","p","e","r","s","o","n">>>>
    ELSE IF people_count > 1 THEN <<<<"m","u","l","t","i","p","l","e"," ","p","e","o","p","l","e">>, <<"g","r","o","u","p">>>>
    ELSE <<>>

\* people_count == 0 / == 1 / > 1
PeopleTerms(people_count) ==
    IF people_count = 0 THEN <<<<"n","o"," ","p","e","o","p","l","e">>>>
    ELSE IF people_count = 1 THEN <<<<"s","i","n","g","l","e"," ","p","e","r","s","o","n">>>>
    ELSE IF people_count > 1 THEN <<<<"m","u","l","t","i","p","l","e"," ","p","e","o","p","l","e">>, <<"g","r","o","u","p">>>>
    ELSE <<>>

SignTerms(sign) ==
    LET sign_used == lower(sign)
    IN  IF In(<<"t","h","u","m","b","s">>, sign_used)
        THEN <<<<"t","h","u","m","b","s"," ","u","p">>, <<"p","o","s","i","t","i","v","e"," ","g","e","s","t","u","r","e">>, <<"a","p","p","r","o","v","a","l">>>>
        ELSE IF In(<<"p","e","a","c","e">>, sign_used) \/ In(<<"v","-","s","i","g","n">>, sign_used)
        THEN <<<<"p","e","a","c","e"," ","s","i","g","n">>, <<"v"," ","s","i","g","n">>, <<"v","i","c","t","o","r","y">>>>
        ELSE IF sign_used # <<"n","o","n","e">> /\ sign_used # <<>>
        THEN <<<<"h","a","n","d"," ","g","e","s","t","u","r","e">>>>
        ELSE <<>>

WeatherTerms(w) ==
    LET weather == lower(w)
    IN  IF weather \in {<<"s","u","n","n","y">>, <<"c","l","e","a","r">>, <<"b","r","i","g","h","t">>}
        THEN <<<<"s","u","n","n","y">>, <<"b","r","i","g","h","t">>, <<"g","o","o","d"," ","w","e","a","t","h","e","r">>, <<"c","l","e","a","r"," ","s","k","y">>>>
        ELSE IF weather \in {<<"c","l","o","u","d","y">>, <<"o","v","e","r","c","a","s","t">>}
        THEN <<<<"c","l","o","u","d","y">>, <<"o","v","e","r","c","a","s","t">>, <<"g","r","a","y"," ","s","k","y">>>>
        ELSE <<>>

SettingTerms(l) ==
    LET landscape == lower(l)
    IN  IF In(<<"o","u","t","d","o","o","r">>, landscape) \/ In(<<"o","u","t","s","i","d","e">>, landscape)
        THEN <<<<"o","u","t","d","o","o","r">>, <<"o","u","t","s","i","d","e">>, <<"n","a","t","u","r","e">>>>
        ELSE IF In(<<"i","n","d","o","o","r">>, landscape) \/ In(<<"i","n","s","i","d","e">>, landscape)
        THEN <<<<"i","n","d","o","o","r">>, <<"i","n","s","i","d","e">>>>
        ELSE <<>>

PlaceTerms(l) ==
    LET landscape == lower(l)
    IN  IF In(<<"b","e","a","c","h">>, landscape)
        THEN <<<<"b","e","a","c","h">>, <<"s","a","n","d">>, <<"o","c","e","a","n">>, <<"s","e","a","s","i","d","e">>>>
        ELSE IF In(<<"m","o","u","n","t","a","i","n">>, landscape)
        THEN <<<<"m","o","u","n","t","a","i","n">>, <<"h","i","l","l","s">>, <<"e","l","e","v","a","t","i","o","n">>>>
        ELSE IF In(<<"c","i","t","y">>, landscape)
        THEN <<<<"c","i","t","y">>, <<"u","r","b","a","n">>, <<"b","u","i","l","d","i","n","g","s">>>>
        ELSE <<>>

ContentParts(entry) ==
    << <<"S","e","t","t","i","n","g",":"," ">> \o entry.landscape_description,
       <<"M","o","o","d",":"," ">> \o entry.mood,
       <<"W","e","a","t","h","e","r",":"," ">> \o entry.weather,
       <<"P","e","o","p","l","e"," ","c","o","u","n","t",":"," ">> \o str(entry.number_of_people),
       <<"H","a","n","d"," ","s","i","g","n","s",":"," ">> \o entry.sign_used >>

\* DescriptiveTerms with the place rules as further elif branches of the
\* outdoor / indoor rules
DescriptiveTerms_Chained(entry) ==
    PeopleTerms(entry.number_of_people) \o SignTerms(entry.sign_used)
        \o WeatherTerms(entry.weather)
        \o (IF SettingTerms(entry.landscape_description) # <<>>
            THEN SettingTerms(entry.landscape_description)
            ELSE PlaceTerms(entry.landscape_description))

DescriptiveTerms(entry) ==
    PeopleTerms(entry.number_of_people) \o SignTerms(entry.sign_used)
        \o WeatherTerms(entry.weather)
        \o SettingTerms(entry.landscape_description)
        \o PlaceTerms(entry.landscape_description)

\* Document(page_content=full_content, metadata={...})
Document(entry) ==
    [ page_content |-> join(ContentParts(entry) \o DescriptiveTerms(entry)),
      metadata |-> [ sign_used |-> entry.sign_used,
                     number_of_people |-> entry.number_of_people,
                     landscape_description |-> entry.landscape_description,
                     weather |-> entry.weather,
                     mood |-> entry.mood,
                     image_name |-> entry.image_name ] ]

\* people_count > 1 raises TypeError when number_of_people is no number
EntryRaises(entry) == entry.number_of_people = JsonNull

\* the loop of create_vector_store: self.docs grows entry by entry and the
\* loop is left by the first entry that raises
RECURSIVE BuildDocs(_)
BuildDocs(store) ==
    IF store = <<>> \/ EntryRaises(Head(store)) THEN <<>>
    ELSE <<Document(Head(store))>> \o BuildDocs(Tail(store))

(***************************************************************************)
(* ImageRetriever: query expansion and the fallback scorer                 *)
(***************************************************************************)
synonyms ==
    << [key |-> <<"t","h","u","m","b","s">>,  syn |-> <<<<"t","h","u","m","b","s"," ","u","p">>, <<"t","h","u","m","b">>, <<"a","p","p","r","o","v","a","l">>, <<"p","o","s","i","t","i","v","e">>>>],
       [key |-> <<"p","e","a","c","e">>,   syn |-> <<<<"p","e","a","c","e"," ","s","i","g","n">>, <<"v"," ","s","i","g","n">>, <<"v","i","c","t","o","r","y">>, <<"v","-","s","i","g","n">>>>],
       [key |-> <<"p","e","o","p","l","e">>,  syn |-> <<<<"p","e","r","s","o","n">>, <<"i","n","d","i","v","i","d","u","a","l","s">>, <<"h","u","m","a","n","s">>, <<"g","r","o","u","p">>>>],
       [key |-> <<"o","u","t","d","o","o","r">>, syn |-> <<<<"o","u","t","s","i","d","e">>, <<"n","a","t","u","r","e">>, <<"e","x","t","e","r","i","o","r">>>>],
       [key |-> <<"i","n","d","o","o","r">>,  syn |-> <<<<"i","n","s","i","d","e">>, <<"i","n","t","e","r","i","o","r">>>>],
       [key |-> <<"s","u","n","n","y">>,   syn |-> <<<<"b","r","i","g","h","t">>, <<"c","l","e","a","r">>, <<"s","u","n","s","h","i","n","e">>>>],
       [key |-> <<"h","a","p","p","y">>,   syn |-> <<<<"j","o","y","f","u","l">>, <<"c","h","e","e","r","f","u","l">>, <<"p","o","s","i","t","i","v","e">>>>],
       [key |-> <<"g","r","o","u","p">>,   syn |-> <<<<"m","u","l","t","i","p","l","e">>, <<"s","e","v","e","r","a","l">>, <<"m","a","n","y">>>> ] >>

\* UpdateAll expanding the synonyms it adds as well
RECURSIVE UpdateAll_Chained(_, _)
UpdateAll_Chained(terms, expanded) ==
    IF terms = <<>> THEN expanded
    ELSE LET hit == {i \in 1..Len(synonyms) : synonyms[i].key = Head(terms)}
             syn == IF hit = {} THEN <<>> ELSE synonyms[CHOOSE i \in hit : TRUE].syn
         IN  UpdateAll_Chained(Tail(terms) \o syn, expanded \cup ToSet(syn))

\* expanded.update(synonyms[term]) for the terms that are keys, in turn
RECURSIVE UpdateAll(_, _)
UpdateAll(terms, expanded) ==
    IF terms = <<>> THEN expanded
    ELSE LET hit == {i \in 1..Len(synonyms) : synonyms[i].key = Head(terms)}
         IN  UpdateAll(Tail(terms),
                       IF hit = {} THEN expanded
                       ELSE expanded \cup ToSet(synonyms[CHOOSE i \in hit : TRUE].syn))

\* the set `expanded` of _expand_query_terms
Expanded(query) ==
    LET terms == split(query) IN UpdateAll(terms, ToSet(terms))

\* list(a_set): the elements in the order the hash table yields them, which
\* the program does not control; `order` selects one order
RECURSIVE Enumerate(_)
Enumerate(S) ==
    IF S = {} THEN <<>>
    ELSE LET x == CHOOSE x \in S : TRUE IN <<x>> \o Enumerate(S \ {x})

RECURSIVE Shuffle(_, _)
Shuffle(seq, order) ==
    IF seq = <<>> THEN <<>>
    ELSE LET k == (order % Len(seq)) + 1
         IN  <<seq[k]>> \o Shuffle(SubSeq(seq, 1, k - 1) \o SubSeq(seq, k + 1, Len(seq)), order)

list(S, order) == Shuffle(Enumerate(S), order)

_expand_query_terms(query, order) == list(Expanded(query), order)

\* TermScore adding 2 for a term that occurs, however often
RECURSIVE TermScore_Once(_, _, _)
TermScore_Once(expanded_terms, content, score) ==
    IF expanded_terms = <<>> THEN score
    ELSE TermScore_Once(Tail(expanded_terms), content,
                        IF In(Head(expanded_terms), content) THEN score + 2 ELSE score)

\* for term in expanded_terms: if term in content: score += content.count(term) * 2
\* (`term in content` says that term occurs somewhere, and count() counts the
\* same occurrences; a term of split() is never empty)
RECURSIVE TermScore(_, _, _)
TermScore(expanded_terms, content, score) ==
    IF expanded_terms = <<>> THEN score
    ELSE LET term == Head(expanded_terms)
             hits == Occurrences(content, term)
         IN  TermScore(Tail(expanded_terms), content,
                       IF hits # {} THEN score + CountFrom(hits, Len(term), 1) * 2
                       ELSE score)

\* the metadata bonuses, image_process.py:365-378
MetadataScore(query_lower, metadata) ==
      (IF In(<<"t","h","u","m","b","s">>, query_lower) /\ In(<<"t","h","u","m","b","s">>, lower(metadata.sign_used)) THEN 10 ELSE 0)
    + (IF In(<<"p","e","a","c","e">>, query_lower) /\ In(<<"p","e","a","c","e">>, lower(metadata.sign_used)) THEN 10 ELSE 0)
    + (IF In(<<"p","e","o","p","l","e">>, query_lower) /\ metadata.number_of_people > 0
       THEN metadata.number_of_people * 3 ELSE 0)
    + (IF In(<<"o","u","t","d","o","o","r">>, query_lower) /\ In(<<"o","u","t","d","o","o","r">>, lower(metadata.landscape_description))
       THEN 5 ELSE 0)
    + (IF In(<<"i","n","d","o","o","r">>, query_lower) /\ In(<<"i","n","d","o","o","r">>, lower(metadata.landscape_description))
       THEN 5 ELSE 0)
    + (IF In(<<"s","u","n","n","y">>, query_lower) /\ In(<<"s","u","n","n","y">>, lower(metadata.weather)) THEN 5 ELSE 0)

DocScore(doc, query_lower, expanded_terms) ==
    TermScore(expanded_terms, lower(doc.page_content), 0)
        + MetadataScore(query_lower, doc.metadata)

\* scored_docs: the (doc, score) pairs with score > 0, in the order of self.docs
RECURSIVE ScoredDocs(_, _, _)
ScoredDocs(docs, query_lower, expanded_terms) ==
    IF docs = <<>> THEN <<>>
    ELSE LET score == DocScore(Head(docs), query_lower, expanded_terms)
         IN  (IF score > 0 THEN <<[doc |-> Head(docs), score |-> score]>> ELSE <<>>)
                 \o ScoredDocs(Tail(docs), query_lower, expanded_terms)

\* InsertByScore putting a pair in front of the pairs of the same score
InsertByScore_Unstable(sorted, x) ==
    LET k == Cardinality({i \in 1..Len(sorted) : sorted[i].score > x.score})
    IN  SubSeq(sorted, 1, k) \o <<x>> \o SubSeq(sorted, k + 1, Len(sorted))

\* list.sort(key=score, reverse=True): stable, so each pair goes behind the
\* pairs already placed whose score is not smaller
InsertByScore(sorted, x) ==
    LET k == Cardinality({i \in 1..Len(sorted) : sorted[i].score >= x.score})
    IN  SubSeq(sorted, 1, k) \o <<x>> \o SubSeq(sorted, k + 1, Len(sorted))

RECURSIVE SortByScore(_, _)
SortByScore(scored_docs, sorted) ==
    IF scored_docs = <<>> THEN sorted
    ELSE SortByScore(Tail(scored_docs), InsertByScore(sorted, Head(scored_docs)))

\* seq[:limit]
Slice(seq, limit) ==
    IF limit >= 0
    THEN SubSeq(seq, 1, IF limit < Len(seq) THEN limit ELSE Len(seq))
    ELSE SubSeq(seq, 1, IF Len(seq) + limit > 0 THEN Len(seq) + limit ELSE 0)

ScoredResult(x) ==
    [ image_url |-> <<"/","p","u","b","l","i","c","/">> \o x.doc.metadata.image_name,
      metadata |-> x.doc.metadata,
      content |-> x.doc.page_content,
      score |-> x.score ]

_enhanced_text_search(docs, query, limit, order) ==
    LET query_lower == lower(query)
        expanded_terms == _expand_query_terms(query_lower, order)
        scored_docs == SortByScore(ScoredDocs(docs, query_lower, expanded_terms), <<>>)
        top == Slice(scored_docs, limit)
    IN  [i \in 1..Len(top) |-> ScoredResult(top[i])]

(***************************************************************************)
(* ImageRetriever: the instance and its search                             *)
(***************************************************************************)
\* self.vectorstore: None, or the Chroma index of the documents it was built from
NoVectorstore == [is_none |-> TRUE, docs |-> <<>>]

Chroma(docs) == [is_none |-> FALSE, docs |-> docs]

\* ImageRetriever.__init__
ImageRetriever(store) ==
    [ metadata_store |-> store, docs |-> <<>>, vectorstore |-> NoVectorstore ]

\* create_vector_store: [self |-> the instance afterwards, raised |-> whether it
\* raised]; `embeddings` is "ok" or "fail", the embeddings service's answer
create_vector_store(self, embeddings) ==
    IF self.metadata_store = <<>>
    THEN [self |-> self, raised |-> TRUE]
    ELSE LET docs == BuildDocs(self.metadata_store)
         IN  IF Len(docs) < Len(self.metadata_store)
             THEN [self |-> [self EXCEPT !.docs = docs], raised |-> TRUE]
             ELSE [self |-> [self EXCEPT !.docs = docs,
                                         !.vectorstore = IF embeddings = "ok" THEN Chroma(docs)
                                                         ELSE NoVectorstore],
                   raised |-> FALSE]

\* self.vectorstore.similarity_search(query, k=limit): the service ranks the
\* indexed documents as it likes (`order`) and returns up to k of them
similarity_search(vectorstore, limit, order) ==
    LET n == Len(vectorstore.docs)
        ranking == Shuffle([i \in 1..n |-> i], order)
        hits == Slice(ranking, IF limit > 0 THEN limit ELSE 0)
    IN  [i \in 1..Len(hits) |-> vectorstore.docs[hits[i]]]

VectorResult(doc) ==
    [ image_url |-> <<"/","p","u","b","l","i","c","/">> \o doc.metadata.image_name,
      metadata |-> doc.metadata,
      content |-> doc.page_content ]

\* SearchIndexed falling back only when there is no index
SearchIndexed_NoFallback(self, query, limit, semantic, order) ==
    LET found == IF semantic # "hits" THEN <<>>
                 ELSE similarity_search(self.vectorstore, limit, order)
    IN  IF self.vectorstore.is_none
        THEN _enhanced_text_search(self.docs, query, limit, order)
        ELSE [i \in 1..Len(found) |-> VectorResult(found[i])]

\* the part of simple_search after the index is there; `semantic` is the
\* similarity search's outcome: "raise", "empty" or "hits"
SearchIndexed(self, query, limit, semantic, order) ==
    LET found == IF self.vectorstore.is_none \/ semantic # "hits" THEN <<>>
                 ELSE similarity_search(self.vectorstore, limit, order)
        results == [i \in 1..Len(found) |-> VectorResult(found[i])]
    IN  IF results = <<>>
        THEN _enhanced_text_search(self.docs, query, limit, order)
        ELSE results

\* simple_search forgetting an index whose similarity search raised
simple_search_DropIndex(self, query, limit, embeddings, semantic, order) ==
    LET built == IF self.docs = <<>> THEN create_vector_store(self, embeddings)
                 ELSE [self |-> self, raised |-> FALSE]
    IN  IF built.raised
        THEN [self |-> built.self, raised |-> TRUE, results |-> <<>>]
        ELSE [self |-> IF semantic = "raise"
                       THEN [built.self EXCEPT !.vectorstore = NoVectorstore]
                       ELSE built.self,
              raised |-> FALSE,
              results |-> SearchIndexed(built.self, query, limit, semantic, order)]

\* simple_search: [self, raised, results]
simple_search(self, query, limit, embeddings, semantic, order) ==
    LET built == IF self.docs = <<>> THEN create_vector_store(self, embeddings)
                 ELSE [self |-> self, raised |-> FALSE]
    IN  IF built.raised
        THEN [self |-> built.self, raised |-> TRUE, results |-> <<>>]
        ELSE [self |-> built.self, raised |-> FALSE,
              results |-> SearchIndexed(built.self, query, limit, semantic, order)]

(***************************************************************************)
(* ImageMetadataProcessor                                                  *)
(***************************************************************************)
Max(S) == CHOOSE x \in S : \A y \in S : x >= y

\* os.path.basename
basename(path) ==
    LET seps == {i \in 1..Len(path) : path[i] = "/"}
    IN  IF seps = {} THEN path ELSE SubSeq(path, Max(seps) + 1, Len(path))

\* os.path.splitext of a file name: the extension starts at the last dot,
\* unless only dots come before it
splitext(filename) ==
    LET dots == {i \in 1..Len(filename) : filename[i] = "."}
        d == Max(dots)
    IN  IF dots # {} /\ \E j \in 1..(d - 1) : filename[j] # "."
        THEN [name |-> SubSeq(filename, 1, d - 1), ext |-> SubSeq(filename, d, Len(filename))]
        ELSE [name |-> filename, ext |-> <<>>]

\* os.path.exists(os.path.join("public", filename))
InPublic(folder, filename) == filename \in DOMAIN folder

\* the loop of save_to_public run once only: the name with the first suffix
FreeName_Once(folder, filename, counter) ==
    splitext(filename).name \o <<"_">> \o str(counter) \o splitext(filename).ext

\* the while loop of save_to_public: the first free name
RECURSIVE FreeName(_, _, _)
FreeName(folder, filename, counter) ==
    LET candidate == splitext(filename).name \o <<"_">> \o str(counter) \o splitext(filename).ext
    IN  IF InPublic(folder, candidate) THEN FreeName(folder, filename, counter + 1)
        ELSE candidate

\* save_to_public without the loop over the taken names
save_to_public_Overwrite(folder, image_path, image) ==
    [ folder |-> (basename(image_path) :> image) @@ folder,
      public_path |-> <<"p","u","b","l","i","c","/">> \o basename(image_path) ]

\* save_to_public: [folder |-> the public folder afterwards, public_path]
save_to_public(folder, image_path, image) ==
    LET filename == basename(image_path)
        stored == IF InPublic(folder, filename) THEN FreeName(folder, filename, 1)
                  ELSE filename
    IN  [ folder |-> folder @@ (stored :> image),
          public_path |-> <<"p","u","b","l","i","c","/">> \o stored ]

\* get_image_description: `methods` holds what each of the three ways of asking
\* the description service does, <<>> when it raises and <<text>> when it
\* answers; the result is <<>> for None and <<text>> otherwise
get_image_description(methods) ==
    IF methods[1] # <<>> THEN methods[1]
    ELSE IF methods[2] # <<>> THEN methods[2]
    ELSE methods[3]

\* `not description`
NoDescription(description) == description = <<>> \/ description[1] = <<>>

people_words == <<<<"p","e","r","s","o","n">>, <<"p","e","o","p","l","e">>, <<"m","a","n">>, <<"w","o","m","a","n">>, <<"c","h","i","l","d">>, <<"b","o","y">>, <<"g","i","r","l">>>>

sign_words == <<<<"v","-","s","i","g","n">>, <<"p","e","a","c","e">>, <<"t","h","u","m","b","s"," ","u","p">>, <<"v","i","c","t","o","r","y">>>>

weather_words == <<<<"s","u","n","n","y">>, <<"c","l","o","u","d","y">>, <<"r","a","i","n","y">>, <<"c","l","e","a","r">>, <<"o","v","e","r","c","a","s","t">>, <<"b","r","i","g","h","t">>>>

RECURSIVE CountWords(_, _)
CountWords(words, desc_lower) ==
    IF words = <<>> THEN 0
    ELSE count(desc_lower, Head(words)) + CountWords(Tail(words), desc_lower)

\* create_fallback_metadata without the cap on the people count
create_fallback_metadata_NoCap(description, image_path) ==
    LET desc_lower == lower(description)
        people_count == CountWords(people_words, desc_lower)
        found == {i \in 1..Len(weather_words) : In(weather_words[i], desc_lower)}
    IN  [ sign_used |-> IF \E i \in 1..Len(sign_words) : In(sign_words[i], desc_lower)
                        THEN <<"h","a","n","d"," ","s","i","g","n","s"," ","d","e","t","e","c","t","e","d">> ELSE <<"n","o","n","e">>,
          number_of_people |-> people_count,
          landscape_description |-> IF Len(description) > 100
                                    THEN SubSeq(description, 1, 100) \o <<".",".",".">>
                                    ELSE description,
          weather |-> IF found = {} THEN <<"u","n","k","n","o","w","n">> ELSE weather_words[Min(found)],
          mood |-> <<"n","e","u","t","r","a","l">>,
          image_name |-> basename(image_path) ]

create_fallback_metadata(description, image_path) ==
    LET desc_lower == lower(description)
        people_count == CountWords(people_words, desc_lower)
        found == {i \in 1..Len(weather_words) : In(weather_words[i], desc_lower)}
    IN  [ sign_used |-> IF \E i \in 1..Len(sign_words) : In(sign_words[i], desc_lower)
                        THEN <<"h","a","n","d"," ","s","i","g","n","s"," ","d","e","t","e","c","t","e","d">> ELSE <<"n","o","n","e">>,
          number_of_people |-> IF people_count < 10 THEN people_count ELSE 10,
          landscape_description |-> IF Len(description) > 100
                                    THEN SubSeq(description, 1, 100) \o <<".",".",".">>
                                    ELSE description,
          weather |-> IF found = {} THEN <<"u","n","k","n","o","w","n">> ELSE weather_words[Min(found)],
          mood |-> <<"n","e","u","t","r","a","l">>,
          image_name |-> basename(image_path) ]

required_fields ==
    {"sign_used", "number_of_people", "landscape_description", "weather", "mood"}

\* extract_metadata; `reply` is what the structured-extraction call does:
\* [kind |-> "raise"], or [kind |-> "value"] when json.loads gives a value that
\* is no object (assigning a field to it raises TypeError), or
\* [kind |-> "text", parsed |-> p] where p is <<>> when json.loads raises
\* JSONDecodeError and <<object>> when it gives a dict

\* extract_metadata returning the parsed object without the defaults
extract_metadata_NoDefaults(description, image_path, reply) ==
    IF reply.kind \in {"raise", "value"} \/ reply.parsed = <<>>
    THEN create_fallback_metadata(description, image_path)
    ELSE LET object == reply.parsed[1]
         IN  [ field \in DOMAIN object \cup {"image_name"} |->
                   IF field = "image_name" THEN basename(image_path)
                   ELSE object[field] ]

extract_metadata(description, image_path, reply) ==
    IF reply.kind \in {"raise", "value"} \/ reply.parsed = <<>>
    THEN create_fallback_metadata(description, image_path)
    ELSE LET object == reply.parsed[1]
         IN  [ field \in DOMAIN object \cup required_fields \cup {"image_name"} |->
                   IF field = "image_name" THEN basename(image_path)
                   ELSE IF field \in DOMAIN object THEN object[field]
                   ELSE IF field # "number_of_people" THEN <<"u","n","k","n","o","w","n">>
                   ELSE 0 ]

\* The images of the model: what the description service and the extraction
\* service answer for each of them.
Gallery ==
    << \* 1: no way of asking the description service works
       [ methods |-> << <<>>, <<>>, <<>> >>, reply |-> [kind |-> "raise"] ],
       \* 2: described at once, extracted as a complete JSON object
       [ methods |-> << <<<<"T","w","o"," ","p","e","o","p","l","e",","," ","t","h","u","m","b","s"," ","u","p",","," ","s","u","n","n","y"," ","b","e","a","c","h">>>>, <<>>, <<>> >>,
         reply |-> [ kind |-> "text",
                     parsed |-> << [ sign_used |-> <<"t","h","u","m","b","s"," ","u","p">>,
                                     number_of_people |-> 2,
                                     landscape_description |-> <<"o","u","t","d","o","o","r"," ","b","e","a","c","h">>,
                                     weather |-> <<"s","u","n","n","y">>,
                                     mood |-> <<"h","a","p","p","y">> ] >> ] ],
       \* 3: described by the third method only, and the extraction call raises
       [ methods |-> << <<>>, <<>>, <<<<"A"," ","m","a","n"," ","s","h","o","w","s"," ","a"," ","P","e","a","c","e"," ","s","i","g","n",","," ","c","l","o","u","d","y"," ","c","i","t","y">>>> >>,
         reply |-> [kind |-> "raise"] ],
       \* 4: the extraction answers a JSON object whose people count is null
       \*    and that lacks the mood
       [ methods |-> << <<<<"U","n","c","l","e","a","r"," ","p","i","c","t","u","r","e">>>>, <<>>, <<>> >>,
         reply |-> [ kind |-> "text",
                     parsed |-> << [ sign_used |-> <<"n","o","n","e">>,
                                     number_of_people |-> JsonNull,
                                     landscape_description |-> <<"i","n","d","o","o","r"," ","o","f","f","i","c","e">>,
                                     weather |-> <<"u","n","k","n","o","w","n">> ] >> ] ] >>

Images == 1..Len(Gallery)

\* the body of the loop of process_images for one path; `image` is the image
\* stored at the path, 0 when os.path.exists(path) is False
ProcessOne(state, path, image) ==
    IF image = 0 THEN state
    ELSE LET saved == save_to_public(state.folder, path, image)
             description == get_image_description(Gallery[image].methods)
         IN  IF NoDescription(description)
             THEN [state EXCEPT !.folder = saved.folder]
             ELSE [ folder |-> saved.folder,
                    store |-> Append(state.store,
                                     extract_metadata(description[1], saved.public_path,
                                                      Gallery[image].reply)) ]

\* ProcessLoop leaving the loop at the first image without a description
RECURSIVE ProcessLoop_Break(_, _, _)
ProcessLoop_Break(state, image_paths, files) ==
    IF image_paths = <<>> THEN state
    ELSE LET image == files[Head(image_paths)]
             next == ProcessOne(state, Head(image_paths), image)
         IN  IF image # 0 /\ NoDescription(get_image_description(Gallery[image].methods))
             THEN next
             ELSE ProcessLoop_Break(next, Tail(image_paths), files)

\* ImageMetadataProcessor.process_images: self.metadata_store = [] and the
\* loop; files[path] is the image at the path when the loop reaches it
RECURSIVE ProcessLoop(_, _, _)
ProcessLoop(state, image_paths, files) ==
    IF image_paths = <<>> THEN state
    ELSE ProcessLoop(ProcessOne(state, Head(image_paths), files[Head(image_paths)]),
                     Tail(image_paths), files)

process_images(folder, image_paths, files) ==
    ProcessLoop([folder |-> folder, store |-> <<>>], image_paths, files)

(***************************************************************************)
(* main.py: the handlers                                                   *)
(***************************************************************************)
\* the limit query_images passes to simple_search
QueryLimit == 5

RECURSIVE Existing(_, _)
Existing(image_paths, files) ==
    IF image_paths = <<>> THEN <<>>
    ELSE (IF files[Head(image_paths)] # 0 THEN <<Head(image_paths)>> ELSE <<>>)
             \o Existing(Tail(image_paths), files)

\* raise HTTPException(status_code, detail) inside the handler's try block
HTTPException(status_code, detail) ==
    [raised |-> TRUE, exception |-> "HTTPException", status_code |-> status_code,
     detail |-> detail]

\* the exception create_vector_store lets through (people_count > 1 on a value
\* that is no number)
TypeError ==
    [raised |-> TRUE, exception |-> "TypeError", status_code |-> 0, detail |-> ""]

Returned(body) == [raised |-> FALSE, body |-> body]

\* `except Exception as e: raise HTTPException(status_code=500, ...)` around the
\* whole body of a handler: HTTPException is an Exception, so the handler's own
\* HTTPException(400) is caught as well
Handler(outcome) ==
    IF outcome.raised
    THEN [status |-> 500, body |-> [detail |-> "Internal server error"]]
    ELSE [status |-> 200, body |-> outcome.body]

\* the files a process_images request finds at its paths: `files` when the
\* handler validates them, and the same without the paths of `vanish` when the
\* processor's loop looks again
Later(files, vanish) == [p \in DOMAIN files |-> IF p \in vanish THEN 0 ELSE files[p]]

\* what process_images does to the globals and what it answers
process_images_handler(image_paths, files, vanish, embeddings) ==
    LET valid_paths == Existing(image_paths, files)
        run == process_images(public, valid_paths, Later(files, vanish))
        built == create_vector_store(ImageRetriever(run.store), embeddings)
    IN  IF valid_paths = <<>>
        THEN [public |-> public, metadata_store |-> metadata_store, retriever |-> retriever,
              outcome |-> HTTPException(400, "No valid image paths provided")]
        ELSE IF run.store = <<>>
        THEN [public |-> run.folder, metadata_store |-> run.store, retriever |-> retriever,
              outcome |-> HTTPException(400, "No metadata could be processed from images")]
        ELSE [public |-> run.folder, metadata_store |-> run.store,
              retriever |-> <<built.self>>,
              outcome |-> IF built.raised THEN TypeError
                          ELSE Returned([ message |-> "Images processed successfully",
                                          processed_count |-> Len(run.store),
                                          metadata |-> run.store ])]

\* what query_images does to the globals and what it answers
query_images_handler(query, embeddings, semantic, order) ==
    IF retriever = <<>>
    THEN [retriever |-> retriever,
          outcome |-> HTTPException(400, "Process images first using /process_images/ endpoint")]
    ELSE LET found == simple_search(retriever[1], query, QueryLimit, embeddings, semantic, order)
         IN  [retriever |-> <<found.self>>,
              outcome |-> IF found.raised THEN TypeError
                          ELSE Returned([query |-> query, results |-> found.results])]


(***************************************************************************)
(* The service: requests are answered one at a time                        *)
(***************************************************************************)
MaxBatch == 2

MaxFiles == 2

MaxOrder == 2

\* two uploads of the same file name, from different folders
Paths == {<<"t","/","a",".","j","p","g">>, <<"u","/","a",".","j","p","g">>}

Queries == {<<"t","h","u","m","b","s"," ","u","p">>, <<"S","u","n","n","y"," ","P","E","A","C","E">>, <<"r","a","i","n","y">>}

Orders == 0..(MaxOrder - 1)

RECURSIVE SeqsUpTo(_, _)
SeqsUpTo(S, n) ==
    IF n = 0 THEN {<<>>}
    ELSE SeqsUpTo(S, n - 1) \cup {Append(q, x) : q \in SeqsUpTo(S, n - 1), x \in S}

\* the files at the paths of a request; a path the request does not name has none
FileSystems(image_paths) ==
    {files \in [Paths -> 0..Len(Gallery)] :
        \A p \in Paths \ ToSet(image_paths) : files[p] = 0}

\* at most one of the files is removed between the two looks at it
Vanishings(image_paths, files) ==
    {{}} \cup {{p} : p \in {q \in ToSet(image_paths) : files[q] # 0}}

\* what the embeddings service is asked by a call that builds the index of
\* `store`, and what the similarity search is asked of the index of `self`;
\* a service that is not called answers nothing
EmbeddingsAnswers(store) ==
    IF store # <<>> /\ Len(BuildDocs(store)) = Len(store) THEN {"ok", "fail"} ELSE {"unasked"}

SemanticAnswers(self) ==
    IF self.vectorstore.is_none THEN {"unasked"} ELSE {"raise", "empty", "hits"}

\* the instance a search works on: simple_search builds the index first when
\* there are no documents
Searched(self, embeddings) ==
    IF self.docs = <<>> THEN create_vector_store(self, embeddings).self ELSE self

Idle == [op |-> "none"]

NoResponse == [status |-> 0]

Init ==
    /\ public = <<>>
    /\ metadata_store = <<>>
    /\ retriever = <<>>
    /\ request = Idle
    /\ response = NoResponse

\* POST /process_images/
ProcessImages ==
    /\ request = Idle
    /\ \E image_paths \in SeqsUpTo(Paths, MaxBatch) :
         \E files \in FileSystems(image_paths) :
         \E vanish \in Vanishings(image_paths, files) :
         \E embeddings \in EmbeddingsAnswers(
                 process_images(public, Existing(image_paths, files),
                                Later(files, vanish)).store) :
        LET after == process_images_handler(image_paths, files, vanish, embeddings)
        IN  /\ Cardinality(DOMAIN after.public) <= MaxFiles
            /\ public' = after.public
            /\ metadata_store' = after.metadata_store
            /\ retriever' = after.retriever
            /\ request' = [op |-> "process_images", image_paths |-> image_paths,
                           files |-> files, vanish |-> vanish, embeddings |-> embeddings]
            /\ response' = Handler(after.outcome)

\* POST /query_images/
QueryImages ==
    /\ request = Idle
    /\ \E query \in Queries :
         \E embeddings \in (IF retriever # <<>> /\ retriever[1].docs = <<>>
                            THEN EmbeddingsAnswers(retriever[1].metadata_store)
                            ELSE {"unasked"}) :
         \E semantic \in (IF retriever = <<>> THEN {"unasked"}
                          ELSE SemanticAnswers(Searched(retriever[1], embeddings))) :
         \E order \in Orders :
        LET after == query_images_handler(query, embeddings, semantic, order)
        IN  /\ retriever' = after.retriever
            /\ request' = [op |-> "query_images", query |-> query, embeddings |-> embeddings,
                           semantic |-> semantic, order |-> order]
            /\ response' = Handler(after.outcome)
            /\ UNCHANGED <<public, metadata_store>>

\* the response reaches the client and the next request can be taken
Deliver ==
    /\ request # Idle
    /\ request' = Idle
    /\ response' = NoResponse
    /\ UNCHANGED <<public, metadata_store, retriever>>

Next == ProcessImages \/ QueryImages \/ Deliver

Spec == Init /\ [][Next]_vars

(***************************************************************************)
(* The retriever alone: an instance over a list of records, and calls of   *)
(* its methods in any order                                                *)
(***************************************************************************)
MaxDocs == 2

MaxLimit == 1

RecordA ==
    [ number_of_people |-> 2, sign_used |-> <<"t","h","u","m","b","s"," ","u","p">>,
      landscape_description |-> <<"o","u","t","d","o","o","r"," ","b","e","a","c","h">>, weather |-> <<"s","u","n","n","y">>,
      mood |-> <<"h","a","p","p","y">>, image_name |-> <<"a",".","j","p","g">> ]

RecordB ==
    [ number_of_people |-> 0, sign_used |-> <<"n","o","n","e">>,
      landscape_description |-> <<"i","n","d","o","o","r"," ","o","f","f","i","c","e">>, weather |-> <<"u","n","k","n","o","w","n">>,
      mood |-> <<"c","a","l","m">>, image_name |-> <<"b",".","j","p","g">> ]

RecordC ==
    [ number_of_people |-> 1, sign_used |-> <<"P","e","a","c","e"," ","s","i","g","n">>,
      landscape_description |-> <<"I","n","s","i","d","e"," ","a"," ","c","i","t","y"," ","c","a","f","e">>, weather |-> <<"C","l","o","u","d","y">>,
      mood |-> <<"c","a","l","m">>, image_name |-> <<"c",".","j","p","g">> ]

RecordD == [RecordA EXCEPT !.image_name = <<"d",".","j","p","g">>]

Records == {RecordA, RecordB, RecordC, RecordD}

\* the lists of distinct records
Stores ==
    {store \in SeqsUpTo(Records, MaxDocs) :
        \A i, j \in 1..Len(store) : i # j => store[i] # store[j]}

SearchQueries ==
    { <<"p","e","o","p","l","e"," ","g","i","v","i","n","g"," ","t","h","u","m","b","s"," ","u","p">>, <<"t","h","u","m","b","s"," ","u","p"," ","g","r","o","u","p">>, <<"S","u","n","n","y"," ","P","E","A","C","E">>,
      <<" ","i","n","d","o","o","r"," "," ","p","e","o","p","l","e"," ">>, <<"r","a","i","n","y">> }

\* the limits asked for: the small ones and the one query_images uses
Limits == 0..MaxLimit \cup {QueryLimit}

InitSearch ==
    /\ public = <<>>
    /\ metadata_store = <<>>
    /\ retriever \in {<<ImageRetriever(store)>> : store \in Stores}
    /\ request = Idle
    /\ response = NoResponse

\* retriever.create_vector_store()
CreateVectorStore ==
    /\ request = Idle
    /\ \E embeddings \in EmbeddingsAnswers(retriever[1].metadata_store) :
         LET built == create_vector_store(retriever[1], embeddings)
         IN  /\ retriever' = <<built.self>>
             /\ request' = [op |-> "create_vector_store", embeddings |-> embeddings]
             /\ response' = [status |-> 0, raised |-> built.raised, results |-> <<>>]
             /\ UNCHANGED <<public, metadata_store>>

\* retriever.simple_search(query, limit)
SimpleSearch ==
    /\ request = Idle
    /\ \E query \in SearchQueries, limit \in Limits, order \in Orders :
         \E embeddings \in (IF retriever[1].docs = <<>>
                            THEN EmbeddingsAnswers(retriever[1].metadata_store)
                            ELSE {"unasked"}) :
         \E semantic \in SemanticAnswers(Searched(retriever[1], embeddings)) :
           LET found == simple_search(retriever[1], query, limit, embeddings, semantic, order)
           IN  /\ retriever' = <<found.self>>
               /\ request' = [op |-> "simple_search", query |-> query, limit |-> limit,
                              embeddings |-> embeddings, semantic |-> semantic,
                              order |-> order]
               /\ response' = [status |-> 0, raised |-> found.raised,
                               results |-> found.results]
               /\ UNCHANGED <<public, metadata_store>>

\* retriever._enhanced_text_search(query, limit)
EnhancedTextSearch ==
    /\ request = Idle
    /\ \E query \in SearchQueries, limit \in Limits, order \in Orders :
         /\ request' = [op |-> "_enhanced_text_search", query |-> query, limit |-> limit,
                        order |-> order]
         /\ response' = [status |-> 0, raised |-> FALSE,
                         results |-> _enhanced_text_search(retriever[1].docs, query,
                                                           limit, order)]
         /\ UNCHANGED <<public, metadata_store, retriever>>

\* retriever._expand_query_terms(query.lower()), as _enhanced_text_search calls it
ExpandQueryTerms ==
    /\ request = Idle
    /\ \E query \in SearchQueries, order \in Orders :
         /\ request' = [op |-> "_expand_query_terms", query |-> query, order |-> order]
         /\ response' = [status |-> 0, raised |-> FALSE,
                         results |-> _expand_query_terms(lower(query), order)]
         /\ UNCHANGED <<public, metadata_store, retriever>>

NextSearch ==
    CreateVectorStore \/ SimpleSearch \/ EnhancedTextSearch \/ ExpandQueryTerms \/ Deliver

SpecSearch == InitSearch /\ [][NextSearch]_vars

(***************************************************************************)
(* Claims about the retriever, under SpecSearch                            *)
(***************************************************************************)
\* the end-to-end scenario: the two records, no semantic index, the query, limit 5
C1_Scenario ==
    /\ request.op = "simple_search"
    /\ retriever[1].metadata_store = <<RecordA, RecordB>>
    /\ retriever[1].vectorstore.is_none
    /\ request.query = <<"p","e","o","p","l","e"," ","g","i","v","i","n","g"," ","t","h","u","m","b","s"," ","u","p">>
    /\ request.limit = 5

\* C1 as stated: the scenario returns exactly one result, a.jpg with score > 0,
\* and b.jpg is excluded.
C1_OnlyA ==
    C1_Scenario =>
        /\ Len(response.results) = 1
        /\ response.results[1].image_url = <<"/","p","u","b","l","i","c","/","a",".","j","p","g">>
        /\ response.results[1].score > 0

\* C1 amended: the scenario returns two results, a.jpg first with score 44 and
\* b.jpg second with score 4 (its body holds "people" twice: in the label
\* "People count:" and in the derived term "no people").
C1_AThenB ==
    C1_Scenario =>
        /\ Len(response.results) = 2
        /\ response.results[1].image_url = <<"/","p","u","b","l","i","c","/","a",".","j","p","g">>
        /\ response.results[1].score = 44
        /\ response.results[2].image_url = <<"/","p","u","b","l","i","c","/","b",".","j","p","g">>
        /\ response.results[2].score = 4
        /\ count(lower(response.results[2].content), <<"p","e","o","p","l","e">>) = 2

C1_Witness == C1_Scenario /\ Len(response.results) = 2

\* C2: simple_search raises only for want of metadata, never because of the
\* embeddings or vector-store service; it returns the fallback scorer's result
\* for the same query and limit whenever the index build failed, the similarity
\* search raised or it found nothing, and the similarity search's documents
\* only when that search succeeded with at least one document.
C2_Degrade ==
    request.op = "simple_search" =>
        LET self == retriever[1]
            fallback == _enhanced_text_search(self.docs, request.query, request.limit,
                                              request.order)
            semantic == similarity_search(self.vectorstore, request.limit, request.order)
            succeeded == ~self.vectorstore.is_none /\ request.semantic = "hits"
                             /\ semantic # <<>>
        IN  /\ response.raised <=> self.metadata_store = <<>>
            /\ ~response.raised /\ ~succeeded => response.results = fallback
            /\ ~response.raised /\ succeeded =>
                   /\ Len(response.results) = Len(semantic)
                   /\ \A i \in 1..Len(semantic) :
                          /\ response.results[i].metadata = semantic[i].metadata
                          /\ response.results[i].content = semantic[i].page_content
                          /\ "score" \notin DOMAIN response.results[i]

C2_Witness ==
    /\ request.op = "simple_search"
    /\ request.embeddings = "fail"
    /\ response.results # <<>>
    /\ "score" \in DOMAIN response.results[1]

\* the score the fallback scorer gives the i-th document for the request's query
C3_Score(i) ==
    DocScore(retriever[1].docs[i], lower(request.query),
             _expand_query_terms(lower(request.query), request.order))

\* document i comes before document j: a greater score, or the same score and
\* an earlier place in the document list
C3_Before(i, j) ==
    C3_Score(i) > C3_Score(j) \/ (C3_Score(i) = C3_Score(j) /\ i < j)

\* C3: the fallback scorer returns the first N of the documents with score > 0,
\* ordered by descending score with ties in insertion order: at most N entries,
\* every score > 0, scores non-increasing, no document with score 0.
C3_TopN ==
    request.op = "_enhanced_text_search" =>
        LET docs == retriever[1].docs
            results == response.results
            positive == {i \in 1..Len(docs) : C3_Score(i) > 0}
            nth(k) == CHOOSE i \in positive :
                          Cardinality({j \in positive : C3_Before(j, i)}) = k - 1
        IN  /\ Len(results) = IF request.limit < Cardinality(positive)
                              THEN request.limit ELSE Cardinality(positive)
            /\ \A k \in 1..Len(results) :
                   /\ results[k].content = docs[nth(k)].page_content
                   /\ results[k].metadata = docs[nth(k)].metadata
                   /\ results[k].score = C3_Score(nth(k))
                   /\ results[k].score > 0
            /\ \A k \in 1..(Len(results) - 1) : results[k].score >= results[k + 1].score

\* two documents with the same score, returned in the order of the document
\* list, behind a document that comes later in the list
C3_Witness ==
    /\ request.op = "_enhanced_text_search"
    /\ Len(response.results) = 2
    /\ response.results[1].score = response.results[2].score
    /\ response.results[1].metadata.image_name = <<"a",".","j","p","g">>
    /\ response.results[2].metadata.image_name = <<"d",".","j","p","g">>

RECURSIVE C4_Sum(_, _)
C4_Sum(terms, content) ==
    IF terms = {} THEN 0
    ELSE LET t == CHOOSE t \in terms : TRUE
         IN  (IF In(t, content) THEN 2 * count(content, t) ELSE 0)
                 + C4_Sum(terms \ {t}, content)

\* the score C4 states
C4_Stated(query, content, metadata) ==
    LET q == lower(query)
        both(word, field) == In(word, q) /\ In(word, lower(field))
    IN  C4_Sum(Expanded(q), lower(content))
        + (IF both(<<"t","h","u","m","b","s">>, metadata.sign_used) THEN 10 ELSE 0)
        + (IF both(<<"p","e","a","c","e">>, metadata.sign_used) THEN 10 ELSE 0)
        + (IF In(<<"p","e","o","p","l","e">>, q) /\ metadata.number_of_people > 0
           THEN 3 * metadata.number_of_people ELSE 0)
        + (IF both(<<"o","u","t","d","o","o","r">>, metadata.landscape_description) THEN 5 ELSE 0)
        + (IF both(<<"i","n","d","o","o","r">>, metadata.landscape_description) THEN 5 ELSE 0)
        + (IF both(<<"s","u","n","n","y">>, metadata.weather) THEN 5 ELSE 0)

\* C4: the score of every returned document is the sum, over the distinct
\* expanded terms that occur in its lowercased body, of 2 times the occurrence
\* count, plus the bonuses that apply; a document left out of an untruncated
\* result has the sum 0; this for every iteration order of the term set.
C4_ScoreFormula ==
    request.op = "_enhanced_text_search" =>
        LET docs == retriever[1].docs
            results == response.results
        IN  /\ \A k \in 1..Len(results) :
                   results[k].score
                       = C4_Stated(request.query, results[k].content, results[k].metadata)
            /\ request.limit >= Len(docs) =>
                   \A i \in 1..Len(docs) :
                       (\A k \in 1..Len(results) : results[k].metadata # docs[i].metadata)
                           => C4_Stated(request.query, docs[i].page_content,
                                        docs[i].metadata) = 0

\* terms and bonuses adding up, under an iteration order other than the first
C4_Witness ==
    /\ request.op = "_enhanced_text_search"
    /\ request.order # 0
    /\ request.query = <<" ","i","n","d","o","o","r"," "," ","p","e","o","p","l","e"," ">>
    /\ \E k \in 1..Len(response.results) :
           /\ response.results[k].metadata.image_name = <<"b",".","j","p","g">>
           /\ response.results[k].score = 15

C5_Keys == {<<"t","h","u","m","b","s">>, <<"p","e","a","c","e">>, <<"p","e","o","p","l","e">>, <<"o","u","t","d","o","o","r">>, <<"i","n","d","o","o","r">>, <<"s","u","n","n","y">>, <<"h","a","p","p","y">>, <<"g","r","o","u","p">>}

\* C5: query expansion returns exactly the whitespace-delimited terms of the
\* lowercased query and the synonyms of those of them that are keys of the
\* table, each once; synonyms are not expanded again; "thumbs up group" gives
\* thumbs, up, group, "thumbs up", thumb, approval, positive, multiple,
\* several, many.
C5_Expansion ==
    request.op = "_expand_query_terms" =>
        LET terms == ToSet(split(lower(request.query)))
            given == ToSet(response.results)
            table == {synonyms[i].key : i \in 1..Len(synonyms)}
        IN  /\ table = C5_Keys
            /\ given = terms \cup UNION {ToSet(synonyms[i].syn) :
                                            i \in {j \in 1..Len(synonyms) : synonyms[j].key \in terms}}
            /\ Cardinality(given) = Len(response.results)
            /\ request.query = <<"t","h","u","m","b","s"," ","u","p"," ","g","r","o","u","p">> =>
                   given = { <<"t","h","u","m","b","s">>, <<"u","p">>, <<"g","r","o","u","p">>, <<"t","h","u","m","b","s"," ","u","p">>, <<"t","h","u","m","b">>, <<"a","p","p","r","o","v","a","l">>,
                             <<"p","o","s","i","t","i","v","e">>, <<"m","u","l","t","i","p","l","e">>, <<"s","e","v","e","r","a","l">>, <<"m","a","n","y">> }
            /\ request.query = <<" ","i","n","d","o","o","r"," "," ","p","e","o","p","l","e"," ">> =>
                   given = { <<"i","n","d","o","o","r">>, <<"p","e","o","p","l","e">>, <<"i","n","s","i","d","e">>, <<"i","n","t","e","r","i","o","r">>, <<"p","e","r","s","o","n">>,
                             <<"i","n","d","i","v","i","d","u","a","l","s">>, <<"h","u","m","a","n","s">>, <<"g","r","o","u","p">> }

C5_Witness ==
    /\ request.op = "_expand_query_terms"
    /\ request.query = <<" ","i","n","d","o","o","r"," "," ","p","e","o","p","l","e"," ">>
    /\ <<"g","r","o","u","p">> \in ToSet(response.results)
    /\ <<"m","a","n","y">> \notin ToSet(response.results)

\* C7: a search call on a retriever whose documents are built leaves its
\* records, its documents and its recorded index (also a failed one) as they are.
C7_SearchFrame ==
    [][ request'.op = "simple_search" /\ retriever[1].docs # <<>>
            => retriever' = retriever ]_vars

\* a search answered by a retriever whose index build had failed before the call
C7_Witness ==
    /\ request.op = "simple_search"
    /\ request.embeddings = "unasked"
    /\ retriever[1].docs # <<>>
    /\ retriever[1].vectorstore.is_none
    /\ response.results # <<>>

(***************************************************************************)
(* Claims about the service, under Spec                                    *)
(***************************************************************************)
\* C6: a query before any retriever is installed is answered with status 400,
\* which is neither the successful empty result (200) nor the internal server
\* error (500), and the globals stay as they are.
C6_PreconditionStatus ==
    request.op = "query_images" /\ retriever = <<>> =>
        /\ response.status = 400
        /\ response.status \notin {200, 500}

\* the six fields a document keeps of its record
C8_Fields(record) ==
    [ field \in {"sign_used", "number_of_people", "landscape_description", "weather",
                 "mood", "image_name"} |-> record[field] ]

\* C8: whenever a retriever is installed and no request is in progress, it has
\* as many documents as records, and the metadata of document i is record i.
C8_DocsMatchRecords ==
    retriever # <<>> /\ request = Idle =>
        LET self == retriever[1]
        IN  /\ Len(self.docs) = Len(self.metadata_store)
            /\ \A i \in 1..Len(self.docs) :
                   self.docs[i].metadata = C8_Fields(self.metadata_store[i])

\* the record the services give for `image` stored in the public folder as `name`
C9_RecordOf(image, name) ==
    extract_metadata(get_image_description(Gallery[image].methods)[1], <<"p","u","b","l","i","c","/">> \o name,
                     Gallery[image].reply)

\* the file name is in the public folder and the image under it is the one the
\* metadata was made from
C9_OwnCopy(metadata) ==
    LET name == metadata.image_name
    IN  /\ name # <<>>
        /\ name \in DOMAIN public
        /\ ~NoDescription(get_image_description(Gallery[public[name]].methods))
        /\ metadata = C8_Fields(C9_RecordOf(public[name], name))

\* C9: every document of the installed retriever has a non-empty image name,
\* and the /public/<image_name> of every document and of every search result
\* names a file of the public folder that holds the record's own image.
C9_ImageReachable ==
    /\ retriever # <<>> =>
           \A i \in 1..Len(retriever[1].docs) : C9_OwnCopy(retriever[1].docs[i].metadata)
    /\ request.op = "query_images" /\ response.status = 200 =>
           \A k \in 1..Len(response.body.results) :
               /\ C9_OwnCopy(response.body.results[k].metadata)
               /\ response.body.results[k].image_url
                      = <<"/","p","u","b","l","i","c","/">> \o response.body.results[k].metadata.image_name

\* a result for an image stored under a suffixed name, its own name being taken
C9_Witness ==
    /\ request.op = "query_images"
    /\ response.status = 200
    /\ \E k \in 1..Len(response.body.results) :
           /\ response.body.results[k].image_url = <<"/","p","u","b","l","i","c","/","a","_","1",".","j","p","g">>
           /\ public[<<"a","_","1",".","j","p","g">>] # public[<<"a",".","j","p","g">>]

\* the images process_images is to make records of: those of the paths that
\* exist when the loop reaches them and that the description service describes
RECURSIVE C10_Remaining(_, _)
C10_Remaining(image_paths, files) ==
    IF image_paths = <<>> THEN <<>>
    ELSE LET image == files[Head(image_paths)]
         IN  (IF image # 0 /\ ~NoDescription(get_image_description(Gallery[image].methods))
              THEN <<image>> ELSE <<>>)
                 \o C10_Remaining(Tail(image_paths), files)

\* C10: process_images skips an image whose path is missing or whose
\* description fails and goes on: the record store holds one record for each
\* remaining image, in the order of the paths.
C10_SkipAndContinue ==
    request.op = "process_images" /\ Existing(request.image_paths, request.files) # <<>> =>
        LET remaining == C10_Remaining(Existing(request.image_paths, request.files),
                                       Later(request.files, request.vanish))
        IN  /\ Len(metadata_store) = Len(remaining)
            /\ \A i \in 1..Len(remaining) :
                   LET name == metadata_store[i].image_name
                   IN  /\ name \in DOMAIN public
                       /\ public[name] = remaining[i]
                       /\ metadata_store[i] = C9_RecordOf(remaining[i], name)

\* a batch of two whose first image gets no description and whose second
\* image gets a record
C10_Witness ==
    /\ request.op = "process_images"
    /\ Len(request.image_paths) = 2
    /\ request.files[request.image_paths[1]] = 1
    /\ Len(metadata_store) = 1

(***************************************************************************)
(* The metadata extractor alone: extract_metadata and                      *)
(* create_fallback_metadata applied to descriptions and extraction replies *)
(***************************************************************************)
\* the largest number of mentions of a person in a description
MaxMentions == 15

RECURSIVE Repeat(_, _)
Repeat(text, n) == IF n = 0 THEN <<>> ELSE text \o Repeat(text, n - 1)

\* the description texts get_image_description hands over
Descriptions ==
    {Repeat(<<"P","e","r","s","o","n"," ">>, n) : n \in 1..MaxMentions}
        \cup { <<"A"," ","m","a","n"," ","s","h","o","w","s"," ","a"," ","P","e","a","c","e"," ","s","i","g","n",","," ","c","l","o","u","d","y"," ","c","i","t","y">>,
               <<"A"," ","w","o","m","a","n",","," ","a"," ","c","h","i","l","d"," ","a","n","d"," ","a"," ","g","i","r","l",":"," ","b","r","i","g","h","t"," ","P","E","O","P","L","E">>,
               <<"U","n","c","l","e","a","r"," ","p","i","c","t","u","r","e">> }

\* a JSON object with the five fields the prompt asks for
FullObject ==
    [ sign_used |-> <<"t","h","u","m","b","s"," ","u","p">>,
      number_of_people |-> 2,
      landscape_description |-> <<"o","u","t","d","o","o","r"," ","b","e","a","c","h">>,
      weather |-> <<"s","u","n","n","y">>,
      mood |-> <<"h","a","p","p","y">> ]

\* what the structured-extraction call can do
Replies ==
    { [kind |-> "raise"], [kind |-> "value"], [kind |-> "text", parsed |-> <<>>] }
        \cup { [kind |-> "text", parsed |-> << [f \in fields |-> FullObject[f]] >>] :
                   fields \in SUBSET required_fields }

\* the paths save_to_public returns
PublicPaths == {<<"p","u","b","l","i","c","/","a",".","j","p","g">>, <<"p","u","b","l","i","c","/","a","_","1",".","j","p","g">>}

InitExtract ==
    /\ public = <<>>
    /\ metadata_store = <<>>
    /\ retriever = <<>>
    /\ request = Idle
    /\ response = NoResponse

\* processor.extract_metadata(description, image_path)
ExtractMetadata ==
    /\ request = Idle
    /\ \E description \in Descriptions, image_path \in PublicPaths, reply \in Replies :
         /\ request' = [op |-> "extract_metadata", description |-> description,
                        image_path |-> image_path, reply |-> reply]
         /\ response' = [status |-> 0, raised |-> FALSE,
                         results |-> extract_metadata(description, image_path, reply)]
         /\ UNCHANGED <<public, metadata_store, retriever>>

\* processor.create_fallback_metadata(description, image_path)
CreateFallbackMetadata ==
    /\ request = Idle
    /\ \E description \in Descriptions \cup {<<>>}, image_path \in PublicPaths :
         /\ request' = [op |-> "create_fallback_metadata", description |-> description,
                        image_path |-> image_path]
         /\ response' = [status |-> 0, raised |-> FALSE,
                         results |-> create_fallback_metadata(description, image_path)]
         /\ UNCHANGED <<public, metadata_store, retriever>>

NextExtract == ExtractMetadata \/ CreateFallbackMetadata \/ Deliver

SpecExtract == InitExtract /\ [][NextExtract]_vars

(***************************************************************************)
(* Claims about the extractor, under SpecExtract                           *)
(***************************************************************************)
\* json.loads gave an object
C11_Parsed(reply) == reply.kind = "text" /\ reply.parsed # <<>>

\* C11: for every non-empty description and every outcome of the extraction
\* call (it raises, its text is no JSON, its JSON is no object, or its JSON
\* object lacks any subset of the five required fields) extract_metadata
\* returns a record with the five required fields and image_name; on parse
\* success the fields of the object are kept and the missing ones are 0 for
\* number_of_people and "unknown" otherwise; on any failure the record is the
\* fallback record of the description.
C11_AlwaysARecord ==
    request.op = "extract_metadata" =>
        LET record == response.results
            reply == request.reply
        IN  /\ required_fields \cup {"image_name"} \subseteq DOMAIN record
            /\ record.image_name = basename(request.image_path)
            /\ C11_Parsed(reply) =>
                   \A field \in required_fields :
                       record[field] =
                           IF field \in DOMAIN reply.parsed[1] THEN reply.parsed[1][field]
                           ELSE IF field = "number_of_people" THEN 0
                           ELSE <<"u","n","k","n","o","w","n">>
            /\ ~C11_Parsed(reply) =>
                   record = create_fallback_metadata(request.description,
                                                     request.image_path)

\* an object with only the sign and the weather, completed with the defaults
C11_Witness ==
    /\ request.op = "extract_metadata"
    /\ C11_Parsed(request.reply)
    /\ DOMAIN request.reply.parsed[1] = {"sign_used", "weather"}
    /\ response.results.number_of_people = 0
    /\ response.results.mood = <<"u","n","k","n","o","w","n">>
    /\ response.results.landscape_description = <<"u","n","k","n","o","w","n">>
    /\ response.results.sign_used = <<"t","h","u","m","b","s"," ","u","p">>

\* the number of places of the text where the word stands, whatever the case
C12_Hits(text, word) ==
    Cardinality({ i \in 1..(Len(text) - Len(word) + 1) :
                      \A k \in 1..Len(word) : LowerChar(text[i + k - 1]) = word[k] })

RECURSIVE C12_Sum(_, _)
C12_Sum(text, words) ==
    IF words = {} THEN 0
    ELSE LET word == CHOOSE w \in words : TRUE
         IN  C12_Hits(text, word) + C12_Sum(text, words \ {word})

C12_Words == {<<"p","e","r","s","o","n">>, <<"p","e","o","p","l","e">>, <<"m","a","n">>, <<"w","o","m","a","n">>, <<"c","h","i","l","d">>, <<"b","o","y">>, <<"g","i","r","l">>}

\* C12: the people count of the fallback record is the smaller of 10 and the
\* sum, over person, people, man, woman, child, boy and girl, of the number of
\* case-insensitive occurrences of the word in the description, so it lies in
\* 0..10; a text with 15 occurrences of "person" gives 10.
C12_CappedCount ==
    request.op = "create_fallback_metadata" =>
        LET mentions == C12_Sum(request.description, C12_Words)
            people == response.results.number_of_people
        IN  /\ people = IF mentions < 10 THEN mentions ELSE 10
            /\ people \in 0..10
            /\ C12_Hits(request.description, <<"p","e","r","s","o","n">>) = 15 => people = 10

\* the description with 15 mentions of a person, capped
C12_Witness ==
    /\ request.op = "create_fallback_metadata"
    /\ C12_Hits(request.description, <<"p","e","r","s","o","n">>) = 15
    /\ response.results.number_of_people = 10

(***************************************************************************)
(* The image store alone: a sequence of save_to_public calls               *)
(***************************************************************************)
\* the largest number of files in the public folder
MaxSaves == 3

\* the paths of the images to save: two with the same file name, one whose
\* name is a suffixed name of theirs, one without extension
SavePaths == {<<"t","/","a",".","j","p","g">>, <<"u","/","a",".","j","p","g">>, <<"u","/","a","_","1",".","j","p","g">>, <<"t","/","b">>}

InitSave ==
    /\ public = <<>>
    /\ metadata_store = <<>>
    /\ retriever = <<>>
    /\ request = Idle
    /\ response = NoResponse

\* processor.save_to_public(image_path), the file at image_path being `image`
SaveToPublic ==
    /\ request = Idle
    /\ Cardinality(DOMAIN public) < MaxSaves
    /\ \E image_path \in SavePaths, image \in Images :
         LET saved == save_to_public(public, image_path, image)
         IN  /\ public' = saved.folder
             /\ request' = [op |-> "save_to_public", image_path |-> image_path,
                            image |-> image]
             /\ response' = [status |-> 0, raised |-> FALSE, results |-> saved.public_path]
             /\ UNCHANGED <<metadata_store, retriever>>

NextSave == SaveToPublic \/ Deliver

SpecSave == InitSave /\ [][NextSave]_vars

(***************************************************************************)
(* Claims about the image store, under SpecSave                            *)
(***************************************************************************)
\* <name>_<k><ext>
C13_Suffixed(filename, k) ==
    splitext(filename).name \o <<"_">> \o str(k) \o splitext(filename).ext

\* the name the claim gives the file: its own if free, else the first free
\* suffixed one
C13_Name(folder, filename, stored) ==
    IF filename \notin DOMAIN folder THEN stored = filename
    ELSE \E k \in 1..(Cardinality(DOMAIN folder) + 1) :
             /\ stored = C13_Suffixed(filename, k)
             /\ stored \notin DOMAIN folder
             /\ \A j \in 1..(k - 1) : C13_Suffixed(filename, j) \in DOMAIN folder

\* C13: every save_to_public call leaves each file of the public folder in
\* place with the image it held, stores the image under a name that was free
\* (so the files of distinct calls have distinct names): the original file
\* name if free, else <name>_<k><ext> for the smallest k >= 1 whose name is
\* free; and returns the path of that file.
C13_NeverOverwrites ==
    [][ request'.op = "save_to_public" =>
            \E stored \in DOMAIN public' :
                /\ \A name \in DOMAIN public :
                       name \in DOMAIN public' /\ public'[name] = public[name]
                /\ stored \notin DOMAIN public
                /\ DOMAIN public' = DOMAIN public \cup {stored}
                /\ public'[stored] = request'.image
                /\ response'.results = <<"p","u","b","l","i","c","/">> \o stored
                /\ C13_Name(public, basename(request'.image_path), stored) ]_vars

\* a third image named a.jpg, a_1.jpg being taken as well: stored as a_2.jpg
C13_Witness ==
    /\ request.op = "save_to_public"
    /\ basename(request.image_path) = <<"a",".","j","p","g">>
    /\ response.results = <<"p","u","b","l","i","c","/","a","_","2",".","j","p","g">>
    /\ DOMAIN public = {<<"a",".","j","p","g">>, <<"a","_","1",".","j","p","g">>, <<"a","_","2",".","j","p","g">>}
    /\ public[<<"a","_","2",".","j","p","g">>] = request.image
    /\ public[<<"a",".","j","p","g">>] # request.image

(***************************************************************************)
(* The document builder alone: create_vector_store on one record           *)
(***************************************************************************)
\* the largest people count of a record
MaxPeople == 2

\* signs: none, thumbs and peace together, peace alone, another gesture
Signs == {<<"n","o","n","e">>, <<"T","h","u","m","b","s"," ","u","p"," ","a","n","d"," ","a"," ","p","e","a","c","e"," ","s","i","g","n">>, <<"V","-","s","i","g","n"," ","f","o","r"," ","P","e","a","c","e">>, <<"w","a","v","i","n","g">>}

\* settings: one rule each, both outdoor and indoor with all three places,
\* two places, indoor with a place, no rule
Landscapes ==
    { <<"o","u","t","d","o","o","r"," ","b","e","a","c","h">>,
      <<"I","n","d","o","o","r"," ","m","a","r","k","e","t",","," ","o","u","t","s","i","d","e"," ","a"," ","c","i","t","y"," ","b","e","a","c","h"," ","a","n","d"," ","a"," ","m","o","u","n","t","a","i","n">>,
      <<"C","i","t","y"," ","o","n"," ","a"," ","M","o","u","n","t","a","i","n">>,
      <<"I","n","s","i","d","e"," ","a"," ","c","i","t","y"," ","c","a","f","e">>,
      <<"a"," ","f","i","e","l","d">> }

Weathers == {<<"S","u","n","n","y">>, <<"o","v","e","r","c","a","s","t">>, <<"u","n","k","n","o","w","n">>}

Entries ==
    [ sign_used : Signs,
      number_of_people : 0..MaxPeople,
      landscape_description : Landscapes,
      weather : Weathers,
      mood : {<<"c","a","l","m">>},
      image_name : {<<"a",".","j","p","g">>} ]

InitBuilder ==
    /\ public = <<>>
    /\ metadata_store = <<>>
    /\ retriever \in {<<ImageRetriever(<<entry>>)>> : entry \in Entries}
    /\ request = Idle
    /\ response = NoResponse

NextBuilder == CreateVectorStore \/ Deliver

SpecBuilder == InitBuilder /\ [][NextBuilder]_vars

(***************************************************************************)
(* Claims about the document builder, under SpecBuilder                    *)
(***************************************************************************)
\* the terms of the first rule that applies, none if no rule does
C14_FirstOf(rules) ==
    LET matching == {i \in 1..Len(rules) : rules[i].when}
    IN  IF matching = {} THEN <<>> ELSE rules[Min(matching)].terms

C14_People(people_count) ==
    C14_FirstOf(<< [when |-> people_count = 0, terms |-> <<<<"n","o"," ","p","e","o","p","l","e">>>>],
                   [when |-> people_count = 1, terms |-> <<<<"s","i","n","g","l","e"," ","p","e","r","s","o","n">>>>],
                   [when |-> people_count > 1, terms |-> <<<<"m","u","l","t","i","p","l","e"," ","p","e","o","p","l","e">>, <<"g","r","o","u","p">>>>] >>)

C14_Sign(sign) ==
    C14_FirstOf(<< [when |-> In(<<"t","h","u","m","b","s">>, sign),
                    terms |-> <<<<"t","h","u","m","b","s"," ","u","p">>, <<"p","o","s","i","t","i","v","e"," ","g","e","s","t","u","r","e">>, <<"a","p","p","r","o","v","a","l">>>>],
                   [when |-> In(<<"p","e","a","c","e">>, sign) \/ In(<<"v","-","s","i","g","n">>, sign),
                    terms |-> <<<<"p","e","a","c","e"," ","s","i","g","n">>, <<"v"," ","s","i","g","n">>, <<"v","i","c","t","o","r","y">>>>],
                   [when |-> sign \notin {<<"n","o","n","e">>, <<>>},
                    terms |-> <<<<"h","a","n","d"," ","g","e","s","t","u","r","e">>>>] >>)

C14_Weather(weather) ==
    C14_FirstOf(<< [when |-> weather \in {<<"s","u","n","n","y">>, <<"c","l","e","a","r">>, <<"b","r","i","g","h","t">>},
                    terms |-> <<<<"s","u","n","n","y">>, <<"b","r","i","g","h","t">>, <<"g","o","o","d"," ","w","e","a","t","h","e","r">>, <<"c","l","e","a","r"," ","s","k","y">>>>],
                   [when |-> weather \in {<<"c","l","o","u","d","y">>, <<"o","v","e","r","c","a","s","t">>},
                    terms |-> <<<<"c","l","o","u","d","y">>, <<"o","v","e","r","c","a","s","t">>, <<"g","r","a","y"," ","s","k","y">>>>] >>)

C14_Setting(landscape) ==
    C14_FirstOf(<< [when |-> In(<<"o","u","t","d","o","o","r">>, landscape) \/ In(<<"o","u","t","s","i","d","e">>, landscape),
                    terms |-> <<<<"o","u","t","d","o","o","r">>, <<"o","u","t","s","i","d","e">>, <<"n","a","t","u","r","e">>>>],
                   [when |-> In(<<"i","n","d","o","o","r">>, landscape) \/ In(<<"i","n","s","i","d","e">>, landscape),
                    terms |-> <<<<"i","n","d","o","o","r">>, <<"i","n","s","i","d","e">>>>] >>)

C14_Place(landscape) ==
    C14_FirstOf(<< [when |-> In(<<"b","e","a","c","h">>, landscape),
                    terms |-> <<<<"b","e","a","c","h">>, <<"s","a","n","d">>, <<"o","c","e","a","n">>, <<"s","e","a","s","i","d","e">>>>],
                   [when |-> In(<<"m","o","u","n","t","a","i","n">>, landscape),
                    terms |-> <<<<"m","o","u","n","t","a","i","n">>, <<"h","i","l","l","s">>, <<"e","l","e","v","a","t","i","o","n">>>>],
                   [when |-> In(<<"c","i","t","y">>, landscape),
                    terms |-> <<<<"c","i","t","y">>, <<"u","r","b","a","n">>, <<"b","u","i","l","d","i","n","g","s">>>>] >>)

\* the derived terms of a record: every category gives the terms of its first
\* matching rule, whatever the other categories give
C14_Terms(entry) ==
    C14_People(entry.number_of_people)
        \o C14_Sign(lower(entry.sign_used))
        \o C14_Weather(lower(entry.weather))
        \o C14_Setting(lower(entry.landscape_description))
        \o C14_Place(lower(entry.landscape_description))

\* C14: the body of the document of every record is its five labelled parts
\* followed by the derived terms, where each rule category (people, sign,
\* weather, outdoor / indoor, beach / mountain / city) contributes on its own
\* and only through its first matching rule in the documented order: thumbs
\* before peace, outdoor before indoor, beach before mountain before city; the
\* outdoor / indoor choice suppresses no term of another category.
C14_FirstMatchPerCategory ==
    request.op = "create_vector_store" =>
        /\ Len(retriever[1].docs) = Len(retriever[1].metadata_store)
        /\ \A i \in 1..Len(retriever[1].docs) :
               retriever[1].docs[i].page_content
                   = join(ContentParts(retriever[1].metadata_store[i])
                              \o C14_Terms(retriever[1].metadata_store[i]))

\* a record whose sign names thumbs and peace and whose landscape names
\* indoor, outside, city, beach and mountain
C14_Witness ==
    /\ request.op = "create_vector_store"
    /\ Len(retriever[1].docs) = 1
    /\ retriever[1].metadata_store[1].sign_used = <<"T","h","u","m","b","s"," ","u","p"," ","a","n","d"," ","a"," ","p","e","a","c","e"," ","s","i","g","n">>
    /\ retriever[1].metadata_store[1].landscape_description
           = <<"I","n","d","o","o","r"," ","m","a","r","k","e","t",","," ","o","u","t","s","i","d","e"," ","a"," ","c","i","t","y"," ","b","e","a","c","h"," ","a","n","d"," ","a"," ","m","o","u","n","t","a","i","n">>
    /\ retriever[1].metadata_store[1].number_of_people = 2
    /\ retriever[1].metadata_store[1].weather = <<"S","u","n","n","y">>
    /\ LET body == retriever[1].docs[1].page_content
       IN  /\ In(<<"m","u","l","t","i","p","l","e"," ","p","e","o","p","l","e"," ","g","r","o","u","p"," ","t","h","u","m","b","s"," ","u","p"," ","p","o","s","i","t","i","v","e"," ","g","e","s","t","u","r","e"," ","a","p","p","r","o","v","a","l"," ","s","u","n","n","y"," ","b","r","i","g","h","t"," ","g","o","o","d"," ","w","e","a","t","h","e","r"," ","c","l","e","a","r"," ","s","k","y"," ","o","u","t","d","o","o","r"," ","o","u","t","s","i","d","e"," ","n","a","t","u","r","e"," ","b","e","a","c","h"," ","s","a","n","d"," ","o","c","e","a","n"," ","s","e","a","s","i","d","e">>, body)
           /\ ~In(<<"v","i","c","t","o","r","y">>, body)
           /\ ~In(<<"i","n","d","o","o","r"," ","i","n","s","i","d","e">>, body)
           /\ ~In(<<"h","i","l","l","s">>, body)
           /\ ~In(<<"u","r","b","a","n">>, body)

====
